---- MODULE Spec2Model ----
(***************************************************************************)
(* A model of the three scripts of the repository:                         *)
(*   analyze_rls_issues.py, rls_consolidation_analysis.py  (Spec)          *)
(*   scripts/analyze-db.py                                 (SpecCli)       *)
(* Python strings are sequences of one-character strings, so that the      *)
(* regular expressions, split and strip act on characters as in the code.  *)
(***************************************************************************)
EXTENDS Integers, Sequences, FiniteSets, TLC

\* ------------------------------------------------------------ bounds

\* Longest CSV file (number of rows) of the grouping runs.
MaxRows == 3

\* Most policy names inside the braces of one policies list of the extraction runs.
MaxPolicies == 2

\* Most command-line arguments after the script name.
MaxArgs == 2

\* ------------------------------------------------------------ strings

\* The backtick, which a TLA+ string cannot hold, is the token "BQ".
BT == "BQ"
DQ == "\""
NL == "\n"

\* The characters of the model in code point order (Python compares strings by
\* code point).
CodePoints ==
  << NL, " ", DQ, "+", ",", ".", "P", "T", "U", "_", BT,
     "a", "b", "c", "d", "e", "f", "i", "k", "l", "n", "o", "p", "q", "r",
     "s", "t", "u", "w", "x", "{", "}" >>

Ord(c) == CHOOSE k \in 1..Len(CodePoints) : CodePoints[k] = c

\* s < t for Python strings.
RECURSIVE StrLess(_, _)
StrLess(s, t) ==
  IF t = <<>> THEN FALSE
  ELSE IF s = <<>> THEN TRUE
  ELSE IF Head(s) = Head(t) THEN StrLess(Tail(s), Tail(t))
  ELSE Ord(Head(s)) < Ord(Head(t))

\* sorted(xs) for a list of strings: insertion of each element after the
\* elements that are not greater (stable).
RECURSIVE InsertStr(_, _)
InsertStr(x, sorted) ==
  IF sorted = <<>> THEN <<x>>
  ELSE IF StrLess(x, Head(sorted)) THEN <<x>> \o sorted
  ELSE <<Head(sorted)>> \o InsertStr(x, Tail(sorted))

RECURSIVE SortedStrs(_)
SortedStrs(xs) ==
  IF xs = <<>> THEN <<>>
  ELSE InsertStr(xs[Len(xs)], SortedStrs(SubSeq(xs, 1, Len(xs) - 1)))

\* s[i:] starts with lit (i is 1-based).
StartsAt(lit, s, i) ==
  /\ i + Len(lit) - 1 <= Len(s)
  /\ \A k \in 1..Len(lit) : s[i + k - 1] = lit[k]

\* str.find: the first index at which sep occurs in s, 0 when it does not.
Find(sep, s) ==
  IF \E i \in 1..Len(s) : StartsAt(sep, s, i)
  THEN CHOOSE i \in 1..Len(s) :
         /\ StartsAt(sep, s, i)
         /\ \A j \in 1..(i - 1) : ~StartsAt(sep, s, j)
  ELSE 0

\* str.split(sep): the pieces between the non-overlapping occurrences of sep,
\* found left to right.
RECURSIVE Split(_, _)
Split(s, sep) ==
  LET at == Find(sep, s) IN
    IF at = 0 THEN <<s>>
    ELSE <<SubSeq(s, 1, at - 1)>> \o Split(SubSeq(s, at + Len(sep), Len(s)), sep)

\* str.split(sep, 1): at most one split.
Split1(s, sep) ==
  LET at == Find(sep, s) IN
    IF at = 0 THEN <<s>>
    ELSE <<SubSeq(s, 1, at - 1), SubSeq(s, at + Len(sep), Len(s))>>

RECURSIVE LStrip(_, _)
LStrip(s, c) ==
  IF s # <<>> /\ Head(s) = c THEN LStrip(Tail(s), c) ELSE s

RECURSIVE RStrip(_, _)
RStrip(s, c) ==
  IF s # <<>> /\ s[Len(s)] = c THEN RStrip(SubSeq(s, 1, Len(s) - 1), c) ELSE s

Strip(s, c) == RStrip(LStrip(s, c), c)

\* ------------------------------------------------------------ regular expressions

TABLE_LIT == <<"T","a","b","l","e"," ",BT,"p","u","b","l","i","c",".">>
ROLE_LIT == <<"f","o","r"," ","r","o","l","e"," ",BT>>
ACTION_LIT == <<"f","o","r"," ","a","c","t","i","o","n"," ",BT>>
POLICIES_LIT ==
  <<"P","o","l","i","c","i","e","s"," ","i","n","c","l","u","d","e"," ",BT,"{">>
POLICIES_END == <<"}", BT>>
Unknown == <<"U","n","k","n","o","w","n">>

NoMatch == [matched |-> FALSE, group |-> <<>>]

\* The length of the longest run of characters other than the backtick that
\* starts at s[i].
RECURSIVE RunLen(_, _)
RunLen(s, i) ==
  IF i > Len(s) \/ s[i] = BT THEN 0 ELSE 1 + RunLen(s, i + 1)

\* lit([^BT]+)BT tried at position i: the greedy run must be non-empty and be
\* followed by a backtick (a shorter run is followed by a run character, so
\* backtracking finds nothing more).
BacktickMatchAt(lit, s, i) ==
  LET start == i + Len(lit)
      n == RunLen(s, start)
  IN  IF StartsAt(lit, s, i) /\ n >= 1 /\ start + n <= Len(s)
      THEN [matched |-> TRUE, group |-> SubSeq(s, start, start + n - 1)]
      ELSE NoMatch

\* re.search(lit([^BT]+)BT, s): the leftmost position that matches.
SearchBacktick(lit, s) ==
  LET hits == {i \in 1..Len(s) : BacktickMatchAt(lit, s, i).matched} IN
    IF hits = {} THEN NoMatch
    ELSE BacktickMatchAt(lit, s, CHOOSE i \in hits : \A j \in hits : i <= j)

\* Policies include BT\{(.+?)\}BT tried at position i: the lazy group is the
\* shortest non-empty text without a line break that is followed by }BT.
PoliciesMatchAt(s, i) ==
  LET start == i + Len(POLICIES_LIT)
      ends == {e \in (start + 1)..Len(s) :
                 /\ StartsAt(POLICIES_END, s, e)
                 /\ \A k \in start..(e - 1) : s[k] # NL}
  IN  IF StartsAt(POLICIES_LIT, s, i) /\ ends # {}
      THEN [matched |-> TRUE,
            group |-> SubSeq(s, start, (CHOOSE e \in ends : \A f \in ends : e <= f) - 1)]
      ELSE NoMatch

SearchPolicies(s) ==
  LET hits == {i \in 1..Len(s) : PoliciesMatchAt(s, i).matched} IN
    IF hits = {} THEN NoMatch
    ELSE PoliciesMatchAt(s, CHOOSE i \in hits : \A j \in hits : i <= j)

\* ------------------------------------------------------------ extraction

\* A slip: m.group(1) if m else ''
GroupOrEmpty(m) == IF m.matched THEN m.group ELSE <<>>

\* m.group(1) if m else 'Unknown'
GroupOrUnknown(m) == IF m.matched THEN m.group ELSE Unknown

\* A slip: the list split at every comma.
SplitAtCommas(policies_str) ==
  LET parts == Split(policies_str, <<",">>)
  IN  [k \in 1..Len(parts) |-> Strip(parts[k], DQ)]

\* [p.strip('"') for p in policies_str.split('","')], then the first element
\* lstripped and the last rstripped.
CleanPolicies(policies_str) ==
  LET parts == Split(policies_str, <<DQ, ",", DQ>>)
      stripped == [k \in 1..Len(parts) |-> Strip(parts[k], DQ)]
      first == [stripped EXCEPT ![1] = LStrip(stripped[1], DQ)]
  IN  [first EXCEPT ![Len(first)] = RStrip(first[Len(first)], DQ)]

PoliciesOf(detail) ==
  LET policies_match == SearchPolicies(detail) IN
    IF policies_match.matched THEN CleanPolicies(policies_match.group) ELSE <<>>

\* The body of (for row in data): the issue appended for one row.
ExtractIssue(detail) ==
  LET policies == PoliciesOf(detail) IN
    [table |-> GroupOrUnknown(SearchBacktick(TABLE_LIT, detail)),
     role |-> GroupOrUnknown(SearchBacktick(ROLE_LIT, detail)),
     action |-> GroupOrUnknown(SearchBacktick(ACTION_LIT, detail)),
     policies |-> policies,
     policy_count |-> Len(policies)]

\* ------------------------------------------------------------ the CSV files

t == <<"t">>
u == <<"u">>
a == <<"a">>
a_b == <<"a", "_", "b">>
c == <<"c">>
b_c == <<"b", "_", "c">>
d == <<"d">>
p == <<"p">>
q == <<"q">>
p_q == <<"p", " ", "q">>
pq == <<"p", ",", "q">>

\* ",".join(names)
RECURSIVE Join(_)
Join(names) ==
  IF Len(names) = 0 THEN <<>>
  ELSE IF Len(names) = 1 THEN names[1]
  ELSE names[1] \o <<",">> \o Join(Tail(names))

\* The text between the braces of a policies list: every name in double
\* quotes, or every name bare.
Quoted(names) == Join([k \in 1..Len(names) |-> <<DQ>> \o names[k] \o <<DQ>>])
Bare(names) == Join(names)

TableText(table) == TABLE_LIT \o table \o <<BT>>
RoleText(role) == ROLE_LIT \o role \o <<BT>>
ActionText(action) == ACTION_LIT \o action \o <<BT>>
PoliciesText(content) == POLICIES_LIT \o content \o POLICIES_END

\* A well-formed detail of the linter's export.
Detail(table, role, action, names) ==
  TableText(table) \o <<" ">> \o RoleText(role) \o <<" ">> \o ActionText(action)
    \o <<".", " ">> \o PoliciesText(Quoted(names))

Malformed == <<"x">>

\* The rows of the grouping runs of rls_consolidation_analysis.py.
ConsDetails ==
  { Malformed,
    TableText(t),
    Detail(t, a, c, <<p>>),
    Detail(t, a, c, <<p, q>>),
    Detail(u, a, c, <<p>>),
    Detail(u, a, d, <<p, q>>) }

\* The rows of the grouping runs of analyze_rls_issues.py.
IssuesDetails ==
  { Malformed,
    Detail(t, a_b, c, <<p>>),
    Detail(t, a, b_c, <<q>>),
    Detail(t, a, c, <<p, q>>),
    Detail(t, a, c, <<p>>),
    Detail(u, a_b, c, <<p>>) }

SeqsUpTo(S, n) == UNION {[1..k -> S] : k \in 0..n}

PolicyNames == {p, p_q, pq}
NameLists == SeqsUpTo(PolicyNames, MaxPolicies) \ {<<>>}

TableParts ==
  { <<>>, TableText(t), TableText(<<>>), TABLE_LIT \o t,
    <<"T", "a", "b", "l", "e", " ", BT>> \o t \o <<BT>> }
RoleParts == { <<>>, RoleText(a_b), RoleText(<<>>) }
ActionParts == { <<>>, ActionText(c), ACTION_LIT \o c }
PoliciesParts ==
  { <<>>, PoliciesText(<<>>), POLICIES_LIT \o Quoted(<<p>>),
    PoliciesText(<<DQ, p[1], NL, DQ>>) }
    \cup {PoliciesText(Quoted(names)) : names \in NameLists}
    \cup {PoliciesText(Bare(names)) : names \in NameLists}

\* The details of the extraction runs: each of the four patterns present,
\* absent or broken, independently.
ExtractionDetails ==
  { tp \o <<" ">> \o rp \o <<" ">> \o ap \o <<" ">> \o pp :
      tp \in TableParts, rp \in RoleParts, ap \in ActionParts, pp \in PoliciesParts }

\* ------------------------------------------------------------ state

VARIABLES
  script,              \* which report script runs
  csv,                 \* the rows of the CSV file: the detail column
  pc,                  \* the statement the script is at
  exc,                 \* the exception that ended the script, or "none"
  i,                   \* position of the running loop
  data, issues, table_summary,
  breakdown, statistics, severity_by_table, consolidation_needed,
  total_policy_executions_before, total_policy_executions_after,
  performance_improvement,
  summary, consolidation_plan,
  \* scripts/analyze-db.py
  sys_argv,            \* sys.argv: the script name, then the arguments
  cli_pc,              \* the statement analyze-db.py is at
  cli_exc,             \* the exception that ended it, or "none"
  exit_status,         \* the status the process exited with, or "none"
  command,             \* the dict passed to run_mcp_command
  popen_calls,         \* calls of subprocess.Popen so far
  mcp_input,           \* the request written to the process's stdin
  communicated,        \* what process.communicate returned: stdout and stderr
  printed              \* what the script has printed, one tuple of fragments per print

reportVars ==
  << script, csv, pc, exc, i, data, issues, table_summary,
     breakdown, statistics, severity_by_table, consolidation_needed,
     total_policy_executions_before, total_policy_executions_after,
     performance_improvement, summary, consolidation_plan >>

cliVars ==
  << sys_argv, cli_pc, cli_exc, exit_status, command, popen_calls, mcp_input,
     communicated, printed >>

vars == << reportVars, cliVars >>

consVars ==
  << breakdown, statistics, severity_by_table, consolidation_needed,
     total_policy_executions_before, total_policy_executions_after,
     performance_improvement >>

issuesVars == << summary, consolidation_plan >>

None == "none"

\* analyze-db.py not run.
CliIdle ==
  /\ sys_argv = <<>>
  /\ cli_pc = "idle"
  /\ cli_exc = None
  /\ exit_status = None
  /\ command = None
  /\ popen_calls = 0
  /\ mcp_input = None
  /\ communicated = None
  /\ printed = <<>>

\* with open(...) as f: data = list(csv.DictReader(f))
Init ==
  /\ CliIdle
  /\ script \in {"analyze_rls_issues", "rls_consolidation_analysis"}
  /\ csv \in
       (IF script = "analyze_rls_issues"
        THEN SeqsUpTo(IssuesDetails, MaxRows)
        ELSE SeqsUpTo(ConsDetails, MaxRows))
       \cup {<<detail>> : detail \in ExtractionDetails}
  /\ data = csv
  /\ pc = "extract"
  /\ exc = None
  /\ i = 1
  /\ issues = <<>>
  /\ table_summary = <<>>
  /\ breakdown = <<>>
  /\ statistics = None
  /\ severity_by_table = <<>>
  /\ consolidation_needed = 0
  /\ total_policy_executions_before = None
  /\ total_policy_executions_after = None
  /\ performance_improvement = None
  /\ summary = <<>>
  /\ consolidation_plan = <<>>

\* len(v) of a list (a sequence) or of a dict (a record, or a sequence of
\* key/value entries).
PyLen(v) == Cardinality(DOMAIN v)

\* ------------------------------------------------------------ both scripts

\* for row in data: ... issues.append({...})
ExtractRow ==
  /\ pc = "extract"
  /\ IF i <= PyLen(data)
     THEN /\ issues' = Append(issues, ExtractIssue(data[i]))
          /\ i' = i + 1
          /\ pc' = pc
     ELSE /\ pc' = "group"
          /\ i' = 1
          /\ issues' = issues
  /\ UNCHANGED << cliVars, script, csv, exc, data, table_summary, consVars, issuesVars >>

\* The position of key in an insertion-ordered dict (a sequence of
\* [key, value] entries), 0 when it is not a key.
IndexOfKey(entries, key) ==
  IF \E n \in 1..Len(entries) : entries[n].key = key
  THEN CHOOSE n \in 1..Len(entries) : entries[n].key = key
  ELSE 0

\* defaultdict.__getitem__: the dict with key present, a missing key added
\* last with the default value.
WithDefault(entries, key, default) ==
  IF IndexOfKey(entries, key) = 0
  THEN Append(entries, [key |-> key, value |-> default])
  ELSE entries

\* f"{issue['role']}_{issue['action']}" and f"{issue['role']}+{issue['action']}"
Separator == IF script = "analyze_rls_issues" THEN <<"_">> ELSE <<"+">>
KeyOf(issue) == issue.role \o Separator \o issue.action

\* A slip: total_issues = 1 in place of total_issues += 1.
GroupedWithoutCount(ts, issue) ==
  LET ts1 == WithDefault(ts, issue.table, [total_issues |-> 0, role_actions |-> <<>>])
      n == IndexOfKey(ts1, issue.table)
      ra1 == WithDefault(ts1[n].value.role_actions, KeyOf(issue), <<>>)
      m == IndexOfKey(ra1, KeyOf(issue))
      conflict == [policies |-> issue.policies, count |-> issue.policy_count]
  IN  [ts1 EXCEPT ![n].value =
         [total_issues |-> 1,
          role_actions |-> [ra1 EXCEPT ![m].value = Append(@, conflict)]]]

\* The body of (for issue in issues): total_issues += 1 and the append to
\* role_actions[key].
GroupedWith(ts, issue) ==
  LET ts1 == WithDefault(ts, issue.table, [total_issues |-> 0, role_actions |-> <<>>])
      n == IndexOfKey(ts1, issue.table)
      ra1 == WithDefault(ts1[n].value.role_actions, KeyOf(issue), <<>>)
      m == IndexOfKey(ra1, KeyOf(issue))
      conflict == [policies |-> issue.policies, count |-> issue.policy_count]
  IN  [ts1 EXCEPT ![n].value =
         [total_issues |-> @.total_issues + 1,
          role_actions |-> [ra1 EXCEPT ![m].value = Append(@, conflict)]]]

GroupIssue ==
  /\ pc = "group"
  /\ IF i <= Len(issues)
     THEN /\ table_summary' = GroupedWith(table_summary, issues[i])
          /\ i' = i + 1
          /\ pc' = pc
     ELSE /\ pc' = IF script = "analyze_rls_issues" THEN "summary" ELSE "breakdown"
          /\ i' = 1
          /\ table_summary' = table_summary
  /\ UNCHANGED << cliVars, script, csv, exc, data, issues, consVars, issuesVars >>

\* ------------------------------------------------------------ lists and dicts

Keys(entries) == [n \in 1..Len(entries) |-> entries[n].key]

\* dict[key] of a key that is present.
Lookup(entries, key) == entries[IndexOfKey(entries, key)].value

RECURSIVE SumOf(_)
SumOf(ns) == IF ns = <<>> THEN 0 ELSE Head(ns) + SumOf(Tail(ns))

\* max(ns) of a list that is not empty.
MaxOf(ns) == CHOOSE m \in {ns[k] : k \in 1..Len(ns)} : \A k \in 1..Len(ns) : ns[k] <= m

RECURSIVE Concat(_)
Concat(lists) == IF lists = <<>> THEN <<>> ELSE Head(lists) \o Concat(Tail(lists))

\* [conflict['count'] for conflicts in value['role_actions'].values()
\*                    for conflict in conflicts]
CountsOf(value) ==
  LET conflicts == Concat([n \in 1..Len(value.role_actions) |-> value.role_actions[n].value])
  IN  [k \in 1..Len(conflicts) |-> conflicts[k].count]

LowerCase == <<"a", "b", "c", "d", "e", "f", "i", "k", "l", "n", "o", "p", "q", "r",
               "s", "t", "u", "w", "x">>
UpperCase == <<"A", "B", "C", "D", "E", "F", "I", "K", "L", "N", "O", "P", "Q", "R",
               "S", "T", "U", "W", "X">>

\* str.upper
Upper(s) ==
  [k \in 1..Len(s) |->
     IF \E n \in 1..Len(LowerCase) : LowerCase[n] = s[k]
     THEN UpperCase[CHOOSE n \in 1..Len(LowerCase) : LowerCase[n] = s[k]]
     ELSE s[k]]

\* ------------------------------------------------------------ rls_consolidation_analysis.py

\* for role_action, conflicts in ...items(): role, action = role_action.split('+', 1);
\* actions[action].extend([(role, conflicts[0]['policies'], conflicts[0]['count'])])
RECURSIVE ActionsOf(_, _)
ActionsOf(items, actions) ==
  IF items = <<>> THEN actions
  ELSE LET role_action == Split1(Head(items).key, <<"+">>)
           conflicts == Head(items).value
           actions1 == WithDefault(actions, role_action[2], <<>>)
           m == IndexOfKey(actions1, role_action[2])
           entry == [role |-> role_action[1],
                     policies |-> conflicts[1].policies,
                     count |-> conflicts[1].count]
       IN  ActionsOf(Tail(items), [actions1 EXCEPT ![m].value = @ \o <<entry>>])

\* The lines printed under one action: one per element of unique_policies (a
\* set, printed in no fixed order), with the roles whose sorted policies equal
\* its policy_tuple.
PrintedUnder(role_data) ==
  LET unique_policies ==
        {<<SortedStrs(role_data[k].policies), role_data[k].count>> : k \in 1..Len(role_data)}
      RolesWith(policy_tuple) ==
        LET RECURSIVE Pick(_)
            Pick(rest) ==
              IF rest = <<>> THEN <<>>
              ELSE (IF SortedStrs(Head(rest).policies) = policy_tuple
                    THEN <<Head(rest).role>> ELSE <<>>) \o Pick(Tail(rest))
        IN  Pick(role_data)
  IN  {[count |-> up[2], roles |-> RolesWith(up[1]), policies |-> up[1]] :
         up \in unique_policies}

\* The body of (for table in sorted(table_summary.keys())), lines 68-91.
BreakdownOf(table) ==
  LET value == Lookup(table_summary, table)
      actions == ActionsOf(value.role_actions, <<>>)
      sorted_actions == SortedStrs(Keys(actions))
  IN  [table |-> table,
       heading |-> <<Upper(table), value.total_issues>>,
       actions |-> [n \in 1..Len(sorted_actions) |->
                      [action |-> sorted_actions[n],
                       role_data |-> Lookup(actions, sorted_actions[n]),
                       printed |-> PrintedUnder(Lookup(actions, sorted_actions[n]))]]]

BreakdownTable ==
  /\ pc = "breakdown"
  /\ IF i <= Len(table_summary)
     THEN /\ breakdown' = Append(breakdown, BreakdownOf(SortedStrs(Keys(table_summary))[i]))
          /\ i' = i + 1
          /\ pc' = pc
     ELSE /\ pc' = "statistics"
          /\ i' = 1
          /\ breakdown' = breakdown
  /\ UNCHANGED << cliVars, script, csv, exc, data, issues, table_summary, statistics,
                  severity_by_table, consolidation_needed,
                  total_policy_executions_before, total_policy_executions_after,
                  performance_improvement, issuesVars >>

\* CRITICAL STATISTICS, lines 93-103.
Statistics ==
  /\ pc = "statistics"
  /\ statistics' =
       [total_issues |-> PyLen(data),
        affected_tables |-> PyLen(table_summary),
        unique_roles |-> Cardinality({issues[k].role : k \in 1..Len(issues)}),
        unique_policies |->
          Cardinality(UNION {{issues[k].policies[n] : n \in 1..Len(issues[k].policies)} :
                               k \in 1..Len(issues)})]
  /\ pc' = "severity"
  /\ UNCHANGED << cliVars, script, csv, exc, i, data, issues, table_summary, breakdown,
                  severity_by_table, consolidation_needed,
                  total_policy_executions_before, total_policy_executions_after,
                  performance_improvement, issuesVars >>

\* for table, data in table_summary.items(): ... severity_by_table.append(...)
\* The loop variable is the script's data: each turn rebinds it.
SeverityRow ==
  /\ pc = "severity"
  /\ IF i <= Len(table_summary)
     THEN /\ data' = table_summary[i].value
          /\ severity_by_table' =
               Append(severity_by_table,
                      [table |-> table_summary[i].key,
                       issues |-> data'.total_issues,
                       max_policies |-> MaxOf(CountsOf(data'))])
          /\ i' = i + 1
          /\ pc' = pc
     ELSE /\ pc' = "sort"
          /\ i' = 1
          /\ UNCHANGED << data, severity_by_table >>
  /\ UNCHANGED << cliVars, script, csv, exc, issues, table_summary, breakdown, statistics,
                  consolidation_needed, total_policy_executions_before,
                  total_policy_executions_after, performance_improvement, issuesVars >>

\* key(x) < key(y) for key = lambda x: (x[1], x[2])
SeverityKeyLess(x, y) ==
  \/ x.issues < y.issues
  \/ x.issues = y.issues /\ x.max_policies < y.max_policies

\* A slip: a descending sort that puts an element before those of equal key.
RECURSIVE InsertBeforeEqual(_, _)
InsertBeforeEqual(x, sorted) ==
  IF sorted = <<>> THEN <<x>>
  ELSE IF ~SeverityKeyLess(x, Head(sorted)) THEN <<x>> \o sorted
  ELSE <<Head(sorted)>> \o InsertBeforeEqual(x, Tail(sorted))

\* list.sort(key=..., reverse=True): descending, and stable (elements with
\* equal keys keep their order).
RECURSIVE InsertDescending(_, _)
InsertDescending(x, sorted) ==
  IF sorted = <<>> THEN <<x>>
  ELSE IF SeverityKeyLess(Head(sorted), x) THEN <<x>> \o sorted
  ELSE <<Head(sorted)>> \o InsertDescending(x, Tail(sorted))

RECURSIVE SortedDescending(_)
SortedDescending(xs) ==
  IF xs = <<>> THEN <<>>
  ELSE InsertDescending(xs[Len(xs)], SortedDescending(SubSeq(xs, 1, Len(xs) - 1)))

SortSeverity ==
  /\ pc = "sort"
  /\ severity_by_table' = SortedDescending(severity_by_table)
  /\ pc' = "ranking"
  /\ UNCHANGED << cliVars, script, csv, exc, i, data, issues, table_summary, breakdown, statistics,
                  consolidation_needed, total_policy_executions_before,
                  total_policy_executions_after, performance_improvement, issuesVars >>

\* for i, (table, issues, max_policies) in enumerate(severity_by_table, 1): print(...)
\* The loop rebinds issues to the issue count of the last table printed.
PrintRanking ==
  /\ pc = "ranking"
  /\ issues' = IF severity_by_table = <<>> THEN issues
               ELSE severity_by_table[Len(severity_by_table)].issues
  /\ pc' = "consolidation"
  /\ UNCHANGED << cliVars, script, csv, exc, i, data, table_summary, breakdown, statistics,
                  severity_by_table, consolidation_needed,
                  total_policy_executions_before, total_policy_executions_after,
                  performance_improvement, issuesVars >>

\* for table, data in table_summary.items(): consolidation_needed += data['total_issues']
Consolidation ==
  /\ pc = "consolidation"
  /\ consolidation_needed' =
       SumOf([n \in 1..Len(table_summary) |-> table_summary[n].value.total_issues])
  /\ data' = IF table_summary = <<>> THEN data
             ELSE table_summary[Len(table_summary)].value
  /\ pc' = "impact"
  /\ UNCHANGED << cliVars, script, csv, exc, i, issues, table_summary, breakdown, statistics,
                  severity_by_table, total_policy_executions_before,
                  total_policy_executions_after, performance_improvement, issuesVars >>

\* Performance impact calculation, lines 136-150. The quotient is kept exact,
\* as numerator and denominator; dividing by zero raises.
Impact ==
  /\ pc = "impact"
  /\ total_policy_executions_before' =
       SumOf(Concat([n \in 1..Len(table_summary) |-> CountsOf(table_summary[n].value)]))
  /\ total_policy_executions_after' = PyLen(data)
  /\ IF total_policy_executions_before' = 0
     THEN /\ exc' = "ZeroDivisionError"
          /\ pc' = "raised"
          /\ performance_improvement' = performance_improvement
     ELSE /\ performance_improvement' =
               [numerator |->
                  (total_policy_executions_before' - total_policy_executions_after') * 100,
                denominator |-> total_policy_executions_before']
          /\ pc' = "done"
          /\ exc' = exc
  /\ UNCHANGED << cliVars, script, csv, i, data, issues, table_summary, breakdown, statistics,
                  severity_by_table, consolidation_needed, issuesVars >>

\* ------------------------------------------------------------ analyze_rls_issues.py

\* sorted(d.items()) of a dict with string keys: by key, the keys being distinct.
RECURSIVE InsertItem(_, _)
InsertItem(x, sorted) ==
  IF sorted = <<>> THEN <<x>>
  ELSE IF StrLess(x.key, Head(sorted).key) THEN <<x>> \o sorted
  ELSE <<Head(sorted)>> \o InsertItem(x, Tail(sorted))

RECURSIVE SortedItems(_)
SortedItems(items) ==
  IF items = <<>> THEN <<>>
  ELSE InsertItem(items[Len(items)], SortedItems(SubSeq(items, 1, Len(items) - 1)))

\* sorted(set(xs))
SortedSet(xs) ==
  LET RECURSIVE Ascending(_)
      Ascending(S) ==
        IF S = {} THEN <<>>
        ELSE LET least == CHOOSE x \in S : \A y \in S : x = y \/ StrLess(x, y)
             IN  <<least>> \o Ascending(S \ {least})
  IN  Ascending({xs[k] : k \in 1..Len(xs)})

\* role, action = role_action.split('_', 1)
RoleActionOf(role_action) == Split1(role_action, <<"_">>)

\* for role_action, conflicts in sorted(...items()): ... for conflict in conflicts:
\* one line (lines 70-72) or one plan (lines 105-113) per conflict.
RECURSIVE PerConflict(_, _)
PerConflict(items, table) ==
  IF items = <<>> THEN <<>>
  ELSE LET role_action == RoleActionOf(Head(items).key)
           conflicts == Head(items).value
       IN  [k \in 1..Len(conflicts) |->
              [role |-> role_action[1],
               action |-> role_action[2],
               count |-> conflicts[k].count,
               policies |-> conflicts[k].policies,
               new_policy_name |->
                 table \o <<"_">> \o role_action[1] \o <<"_">> \o role_action[2]
                   \o <<"_", "c", "o", "n", "s", "o", "l", "i", "d", "a", "t", "e", "d">>]]
             \o PerConflict(Tail(items), table)

\* SUMMARY BY TABLE, lines 65-72: one turn of the loop over the sorted tables.
SummaryTable ==
  /\ pc = "summary"
  /\ IF i <= Len(table_summary)
     THEN LET table == SortedStrs(Keys(table_summary))[i]
              value == Lookup(table_summary, table)
          IN  /\ summary' =
                   Append(summary,
                          [table |-> table,
                           total_issues |-> value.total_issues,
                           lines |-> PerConflict(SortedItems(value.role_actions), table)])
              /\ i' = i + 1
              /\ pc' = pc
              /\ statistics' = statistics
     ELSE \* AFFECTED TABLES, AFFECTED ROLES and ALL POLICY NAMES, lines 74-95.
          LET tables == [k \in 1..Len(issues) |-> issues[k].table]
              roles == [k \in 1..Len(issues) |-> issues[k].role]
              unique_tables == SortedSet(tables)
              unique_roles == SortedSet(roles)
          IN  /\ statistics' =
                   [unique_tables |->
                      [n \in 1..Len(unique_tables) |->
                         <<unique_tables[n],
                           Cardinality({k \in 1..Len(issues) : tables[k] = unique_tables[n]})>>],
                    unique_roles |->
                      [n \in 1..Len(unique_roles) |->
                         <<unique_roles[n],
                           Cardinality({k \in 1..Len(issues) : roles[k] = unique_roles[n]})>>],
                    all_policies |->
                      SortedSet(Concat([k \in 1..Len(issues) |-> issues[k].policies]))]
              /\ pc' = "plan"
              /\ i' = 1
              /\ summary' = summary
  /\ UNCHANGED << cliVars, script, csv, exc, data, issues, table_summary, breakdown,
                  severity_by_table, consolidation_needed,
                  total_policy_executions_before, total_policy_executions_after,
                  performance_improvement, consolidation_plan >>

\* CONSOLIDATION PLAN, lines 102-113: one turn of the loop over the sorted
\* tables; after the last, the plan is printed (lines 115-120).
PlanTable ==
  /\ pc = "plan"
  /\ IF i <= Len(table_summary)
     THEN LET table == SortedStrs(Keys(table_summary))[i]
              plans == PerConflict(SortedItems(Lookup(table_summary, table).role_actions),
                                   table)
          IN  /\ consolidation_plan' =
                   Append(consolidation_plan,
                          [key |-> table,
                           value |-> [k \in 1..Len(plans) |->
                                        [role |-> plans[k].role,
                                         action |-> plans[k].action,
                                         current_policies |-> plans[k].policies,
                                         new_policy_name |-> plans[k].new_policy_name,
                                         consolidation_needed |-> TRUE]]])
              /\ i' = i + 1
              /\ pc' = pc
     ELSE /\ pc' = "done"
          /\ i' = 1
          /\ consolidation_plan' = consolidation_plan
  /\ UNCHANGED << cliVars, script, csv, exc, data, issues, table_summary, consVars, summary >>

\* ------------------------------------------------------------ scripts/analyze-db.py

\* No report script run.
ReportIdle ==
  /\ script = None
  /\ csv = <<>>
  /\ data = <<>>
  /\ pc = "idle"
  /\ exc = None
  /\ i = 1
  /\ issues = <<>>
  /\ table_summary = <<>>
  /\ breakdown = <<>>
  /\ statistics = None
  /\ severity_by_table = <<>>
  /\ consolidation_needed = 0
  /\ total_policy_executions_before = None
  /\ total_policy_executions_after = None
  /\ performance_improvement = None
  /\ summary = <<>>
  /\ consolidation_plan = <<>>

\* What a user may type after the script name: the four subcommands, a word
\* that is none of them, and a query.
Words == {"health", "slow-queries", "index-recommend", "explain", "status", "SELECT 1"}

\* What the external process may write.
Outputs == {"", "{\"result\": 1}"}
Errors == {"", "connection refused"}

CliInit ==
  /\ ReportIdle
  /\ sys_argv \in {<<"analyze-db.py">> \o args : args \in SeqsUpTo(Words, MaxArgs)}
  /\ cli_pc = "main"
  /\ cli_exc = None
  /\ exit_status = None
  /\ command = None
  /\ popen_calls = 0
  /\ mcp_input = None
  /\ communicated = None
  /\ printed = <<>>

\* A slip: get_top_queries calling the health tool.
CommandOfCopied(argv) ==
  IF argv[2] = "health" THEN [name |-> "analyze_db_health"]
  ELSE IF argv[2] = "slow-queries" THEN [name |-> "analyze_db_health"]
  ELSE IF argv[2] = "index-recommend" THEN [name |-> "analyze_workload_indexes"]
  ELSE [name |-> "explain_query", arguments |-> [query |-> argv[3]]]

\* The dict each subcommand's function passes to run_mcp_command (lines 49,
\* 55, 61, 67-70); argv[k] of the code is argv[k + 1] here.
CommandOf(argv) ==
  IF argv[2] = "health" THEN [name |-> "analyze_db_health"]
  ELSE IF argv[2] = "slow-queries" THEN [name |-> "get_top_queries"]
  ELSE IF argv[2] = "index-recommend" THEN [name |-> "analyze_workload_indexes"]
  ELSE [name |-> "explain_query", arguments |-> [query |-> argv[3]]]

\* A slip: the index-recommend branch left out of the chain.
DispatchesThree(argv) ==
  \/ argv[2] = "health"
  \/ argv[2] = "slow-queries"
  \/ argv[2] = "explain" /\ Len(argv) > 2

\* The if/elif chain of main, lines 93-100: whether a branch other than the
\* final else is taken.
Dispatches(argv) ==
  \/ argv[2] = "health"
  \/ argv[2] = "slow-queries"
  \/ argv[2] = "index-recommend"
  \/ argv[2] = "explain" /\ Len(argv) > 2

\* The line each subcommand's function prints first (the arguments of the
\* model are shorter than the 50 characters query[:50] keeps).
BannerOf(argv) ==
  IF argv[2] = "health" THEN <<"Running Database Health Analysis...">>
  ELSE IF argv[2] = "slow-queries" THEN <<"Finding Slowest Queries...">>
  ELSE IF argv[2] = "index-recommend"
    THEN <<"Analyzing Workload for Index Recommendations...">>
  ELSE <<"Explaining Query: ", argv[3], "...">>

\* main, lines 73-103, up to the call of run_mcp_command.
Main ==
  /\ cli_pc = "main"
  /\ IF Len(sys_argv) < 2
     THEN /\ printed' = Append(printed, <<"Usage: python analyze-db.py <command> [arguments]">>)
          /\ exit_status' = 1
          /\ cli_pc' = "exited"
          /\ command' = command
     ELSE IF Dispatches(sys_argv)
     THEN /\ printed' = Append(printed, BannerOf(sys_argv))
          /\ command' = CommandOf(sys_argv)
          /\ cli_pc' = "popen"
          /\ exit_status' = exit_status
     ELSE /\ printed' = Append(printed, <<"Unknown command: ", sys_argv[2]>>)
          /\ exit_status' = 1
          /\ cli_pc' = "exited"
          /\ command' = command
  /\ UNCHANGED << reportVars, sys_argv, cli_exc, popen_calls, mcp_input, communicated >>

\* {} of JSON.
EmptyObject == [k \in {} |-> k]

\* mcp_input, lines 19-27.
McpInput(cmd) ==
  [jsonrpc |-> "2.0",
   method |-> "tools/call",
   params |-> [name |-> cmd.name,
               arguments |-> IF "arguments" \in DOMAIN cmd THEN cmd.arguments
                             ELSE EmptyObject],
   id |-> 1]

\* run_mcp_command, lines 19-36: the request is built and the process
\* started. Popen raises when postgres-mcp cannot be started; nothing catches
\* it, and the interpreter exits with status 1.
Popen ==
  /\ cli_pc = "popen"
  /\ mcp_input' = McpInput(command)
  /\ popen_calls' = popen_calls + 1
  /\ \/ /\ cli_pc' = "communicate"
        /\ UNCHANGED << cli_exc, exit_status >>
     \/ /\ cli_exc' = "FileNotFoundError"
        /\ exit_status' = 1
        /\ cli_pc' = "exited"
  /\ UNCHANGED << reportVars, sys_argv, command, communicated, printed >>

\* run_mcp_command, lines 39-44, and the caller's print(result): the process
\* reads the request, writes stdout and stderr and ends; main returns.
Communicate ==
  /\ cli_pc = "communicate"
  /\ \E stdout \in Outputs, stderr \in Errors :
       /\ communicated' = [stdout |-> stdout, stderr |-> stderr]
       /\ printed' = printed
                       \o (IF stderr # "" THEN << <<"Error: ", stderr>> >> ELSE <<>>)
                       \o << <<stdout>> >>
  /\ exit_status' = 0
  /\ cli_pc' = "exited"
  /\ UNCHANGED << reportVars, sys_argv, cli_exc, command, popen_calls, mcp_input >>

CliNext == Main \/ Popen \/ Communicate

SpecCli == CliInit /\ [][CliNext]_vars

Next ==
  \/ ExtractRow
  \/ GroupIssue
  \/ BreakdownTable
  \/ Statistics
  \/ SeverityRow
  \/ SortSeverity
  \/ PrintRanking
  \/ Consolidation
  \/ Impact
  \/ SummaryTable
  \/ PlanTable

Spec == Init /\ [][Next]_vars
\* ------------------------------------------------------------ properties

\* The positions at which lit ends in s.
EndsOf(lit, s) == {e \in Len(lit)..Len(s) : StartsAt(lit, s, e - Len(lit) + 1)}

\* The texts s holds between lit and a backtick: one or more characters, none
\* of them a backtick.
FieldsIn(lit, s) ==
  UNION {{SubSeq(s, e + 1, to) :
            to \in {to \in (e + 1)..(Len(s) - 1) :
                      /\ s[to + 1] = BT
                      /\ \A k \in (e + 1)..to : s[k] # BT}} :
         e \in EndsOf(lit, s)}

\* The field is the default when its pattern is absent, and the text of a
\* match when it is present.
FieldExtracted(lit, detail, field) ==
  LET fields == FieldsIn(lit, detail) IN
    IF fields = {} THEN field = Unknown ELSE field \in fields

\* s holds the policies pattern: the opening text, one or more characters of
\* one line, then the closing brace and backtick.
HasPolicies(s) ==
  \E e \in EndsOf(POLICIES_LIT, s) :
    \E to \in (e + 1)..(Len(s) - 2) :
      /\ StartsAt(POLICIES_END, s, to + 1)
      /\ \A k \in (e + 1)..to : s[k] # NL

ValidInvocation ==
  /\ Len(sys_argv) >= 2
  /\ \/ sys_argv[2] \in {"health", "slow-queries", "index-recommend"}
     \/ sys_argv[2] = "explain" /\ Len(sys_argv) >= 3

\* C1: analyze-db.py exits with status 1 exactly when the invocation is
\* invalid (no argument, when usage is printed; a first argument that is no
\* subcommand; explain without a query) or Popen raised; a valid invocation
\* whose process launches and returns ends with status 0 whatever the process
\* wrote to stderr; no other status occurs.
C1_ExitStatus ==
  cli_pc = "exited" =>
    /\ exit_status \in {0, 1}
    /\ exit_status = 1 <=> (~ValidInvocation \/ cli_exc # None)
    /\ (ValidInvocation /\ cli_exc = None) => exit_status = 0
    /\ Len(sys_argv) < 2 =>
         printed = << <<"Usage: python analyze-db.py <command> [arguments]">> >>

C1_Witness ==
  /\ cli_pc = "exited"
  /\ sys_argv = <<"analyze-db.py", "explain">>
  /\ exit_status = 1
  /\ cli_exc = None

\* C1, its valid case: status 0 although the process wrote to stderr.
C1_WitnessStderr ==
  /\ cli_pc = "exited"
  /\ exit_status = 0
  /\ communicated.stderr # ""

ToolOf(word) ==
  CASE word = "health" -> "analyze_db_health"
    [] word = "slow-queries" -> "get_top_queries"
    [] word = "index-recommend" -> "analyze_workload_indexes"
    [] word = "explain" -> "explain_query"

\* C6: Popen is called once when the invocation is valid and never when it is
\* invalid; the request has method tools/call, id 1, the tool name of the
\* subcommand and as arguments the query of explain or the empty object; the
\* process's stdout is the last thing printed, unmodified.
C6_OneRequest ==
  /\ popen_calls <= 1
  /\ cli_pc = "exited" => popen_calls = (IF ValidInvocation THEN 1 ELSE 0)
  /\ popen_calls = 1 =>
       /\ mcp_input.jsonrpc = "2.0"
       /\ mcp_input.method = "tools/call"
       /\ mcp_input.id = 1
       /\ mcp_input.params.name = ToolOf(sys_argv[2])
       /\ IF sys_argv[2] = "explain"
          THEN /\ DOMAIN mcp_input.params.arguments = {"query"}
               /\ mcp_input.params.arguments.query = sys_argv[3]
          ELSE DOMAIN mcp_input.params.arguments = {}
  /\ (cli_pc = "exited" /\ exit_status = 0) =>
       printed[Len(printed)] = <<communicated.stdout>>

C6_Witness ==
  /\ cli_pc = "exited"
  /\ exit_status = 0
  /\ sys_argv = <<"analyze-db.py", "explain", "SELECT 1">>
  /\ mcp_input.params.arguments.query = "SELECT 1"
  /\ communicated.stdout # ""

\* C2: for every row, a field whose pattern the detail lacks is 'Unknown'
\* (table, role, action) or the empty list with policy_count 0 (policies), each
\* field on its own, a field whose pattern is present being the matched text;
\* and the extraction does not raise.
C2_Defaults ==
  pc = "extract" =>
    /\ exc = None
    /\ \A k \in 1..Len(issues) :
      /\ FieldExtracted(TABLE_LIT, csv[k], issues[k].table)
      /\ FieldExtracted(ROLE_LIT, csv[k], issues[k].role)
      /\ FieldExtracted(ACTION_LIT, csv[k], issues[k].action)
      /\ ~HasPolicies(csv[k]) =>
           issues[k].policies = <<>> /\ issues[k].policy_count = 0
      /\ HasPolicies(csv[k]) => issues[k].policy_count >= 1

\* A detail with the table pattern only.
C2_Witness ==
  /\ pc = "extract"
  /\ \E k \in 1..Len(issues) :
       /\ issues[k].table = t
       /\ issues[k].role = Unknown
       /\ issues[k].action = Unknown
       /\ issues[k].policies = <<>>

\* A detail with none of the patterns.
C2_WitnessNone ==
  /\ pc = "extract"
  /\ \E k \in 1..Len(issues) :
       /\ issues[k].table = Unknown
       /\ issues[k].role = Unknown
       /\ issues[k].action = Unknown
       /\ issues[k].policies = <<>>
       /\ Len(csv[k]) > Len(POLICIES_LIT)

\* Where the text between the braces of the first policies list of the
\* detail starts, 0 when the detail has no such list.
FirstListStart(detail) ==
  LET ends == EndsOf(POLICIES_LIT, detail) IN
    IF ends = {} THEN 0 ELSE (CHOOSE e \in ends : \A f \in ends : e <= f) + 1

\* The first policies list of the detail holds these names, each in double
\* quotes.
HoldsNames(detail, names) ==
  /\ FirstListStart(detail) # 0
  /\ StartsAt(Quoted(names) \o POLICIES_END, detail, FirstListStart(detail))

TotalIssues == [n \in 1..Len(table_summary) |-> table_summary[n].value.total_issues]

EntriesOf(value) ==
  SumOf([n \in 1..Len(value.role_actions) |-> Len(value.role_actions[n].value)])

\* C4: while grouping, the per-table issue counts add up to the number of
\* issues grouped so far; once all are grouped they add up to the number of CSV
\* rows, each table's count is the number of entries in its role+action lists,
\* and the consolidations needed are the number of CSV rows.
C4_CountsAddUp ==
  /\ pc = "group" => SumOf(TotalIssues) = i - 1
  /\ pc \notin {"idle", "extract", "group"} =>
       /\ SumOf(TotalIssues) = Len(csv)
       /\ \A n \in 1..Len(table_summary) :
            table_summary[n].value.total_issues = EntriesOf(table_summary[n].value)
  /\ pc \in {"impact", "done", "raised"} /\ script = "rls_consolidation_analysis" =>
       consolidation_needed = Len(csv)

C4_Witness ==
  /\ pc = "impact"
  /\ Len(table_summary) = 2
  /\ consolidation_needed = 3
  /\ \E n \in 1..2 : table_summary[n].value.total_issues = 2

RowsOf(table) == {k \in 1..Len(issues) : issues[k].table = table}

FirstRow(table) == CHOOSE k \in RowsOf(table) : \A l \in RowsOf(table) : k <= l

\* C5: the sorted severity ranking lists every table once, with its issue
\* count and the greatest policy_count of its issues, in descending order of
\* (issue count, greatest policy_count), tables equal in both in the order of
\* their first rows in the CSV.
C5_Ranking ==
  pc = "ranking" =>
    LET s == severity_by_table IN
      /\ {s[n].table : n \in 1..Len(s)} = {issues[k].table : k \in 1..Len(issues)}
      /\ \A n, m \in 1..Len(s) : s[n].table = s[m].table => n = m
      /\ \A n \in 1..Len(s) :
           /\ s[n].issues = Cardinality(RowsOf(s[n].table))
           /\ \A k \in RowsOf(s[n].table) : issues[k].policy_count <= s[n].max_policies
           /\ \E k \in RowsOf(s[n].table) : issues[k].policy_count = s[n].max_policies
      /\ \A n, m \in 1..Len(s) :
           n < m =>
             \/ s[n].issues > s[m].issues
             \/ s[n].issues = s[m].issues /\ s[n].max_policies > s[m].max_policies
             \/ /\ s[n].issues = s[m].issues
                /\ s[n].max_policies = s[m].max_policies
                /\ FirstRow(s[n].table) < FirstRow(s[m].table)

\* Three tables: two equal in both keys, the one after them in the CSV ranked first.
C5_Witness ==
  /\ pc = "ranking"
  /\ Len(severity_by_table) = 3
  /\ severity_by_table[2].issues = severity_by_table[3].issues
  /\ severity_by_table[2].max_policies = severity_by_table[3].max_policies
  /\ FirstRow(severity_by_table[1].table) = 3

\* C3: for a CSV of one or more rows, also rows that match no pattern,
\* rls_consolidation_analysis.py runs to its last print without raising.
C3_NeverRaises ==
  (script = "rls_consolidation_analysis" /\ Len(csv) >= 1) => exc = None /\ pc # "raised"

\* C8: for a CSV of one or more rows, 'Policy executions after' is the number
\* of issues (of CSV rows) and 'Policy executions before' is the sum of
\* policy_count over the issues.
C8_Executions ==
  (script = "rls_consolidation_analysis" /\ pc = "done" /\ Len(csv) >= 1) =>
    /\ total_policy_executions_after = Len(csv)
    /\ total_policy_executions_before =
         SumOf([k \in 1..Len(csv) |-> ExtractIssue(csv[k]).policy_count])

\* C9: in analyze_rls_issues.py every issue's role and action, as recovered
\* from the grouping key, are shown with its table and policies in the summary
\* and stored in the consolidation plan; and two issues of one table are in
\* the same role+action group only if their roles and actions are equal.
C9_FaithfulKey ==
  (script = "analyze_rls_issues" /\ pc = "done") =>
    /\ \A k \in 1..Len(issues) :
         /\ \E n \in 1..Len(summary) :
              /\ summary[n].table = issues[k].table
              /\ \E m \in 1..Len(summary[n].lines) :
                   /\ summary[n].lines[m].role = issues[k].role
                   /\ summary[n].lines[m].action = issues[k].action
                   /\ summary[n].lines[m].policies = issues[k].policies
         /\ \E n \in 1..Len(consolidation_plan) :
              /\ consolidation_plan[n].key = issues[k].table
              /\ \E m \in 1..Len(consolidation_plan[n].value) :
                   /\ consolidation_plan[n].value[m].role = issues[k].role
                   /\ consolidation_plan[n].value[m].action = issues[k].action
                   /\ consolidation_plan[n].value[m].current_policies = issues[k].policies
    /\ \A k, l \in 1..Len(issues) :
         (issues[k].table = issues[l].table /\ KeyOf(issues[k]) = KeyOf(issues[l])) =>
           (issues[k].role = issues[l].role /\ issues[k].action = issues[l].action)

\* C10: in the issue breakdown every issue of a table is represented: the
\* entries collected across the table's actions are as many as the
\* total_issues of its heading, and each issue's policies are printed under
\* its action.
C10_AllRepresented ==
  (script = "rls_consolidation_analysis" /\ pc = "statistics") =>
    \A n \in 1..Len(breakdown) :
      /\ SumOf([m \in 1..Len(breakdown[n].actions) |-> Len(breakdown[n].actions[m].role_data)])
           = breakdown[n].heading[2]
      /\ \A k \in RowsOf(breakdown[n].table) :
           \E m \in 1..Len(breakdown[n].actions) :
             /\ breakdown[n].actions[m].action = issues[k].action
             /\ \E line \in breakdown[n].actions[m].printed :
                  line.policies = SortedStrs(issues[k].policies)
====
